---- MODULE Spec2Model ----
(***************************************************************************)
(* Model of the compute node's shard state machine manager and of the      *)
(* per-shard state machines (package computenode), together with the       *)
(* capacity manager's rebalance loop that decides which enqueued shards    *)
(* are sent a Bid.                                                         *)
(***************************************************************************)
EXTENDS Integers, Sequences, FiniteSets, TLC

\* ------------------------------------------------------------------------
\* Bounds
\* ------------------------------------------------------------------------
NumShards == 3
MaxFsm == 3
\* the shards announced and the state machines constructed under Spec
SpecShards == 2
SpecFsm == 2
\* the state machines constructed under SpecLive
LiveFsm == 2

\* configured node capacity (one resource dimension)
Total == 2

Shards == 1..NumShards
FsmIds == 1..MaxFsm

\* requirements announced with a shard: shard 1 needs the whole node,
\* the others half of it
Requirements(s) == IF s = 1 THEN Total ELSE 1

\* ------------------------------------------------------------------------
\* Threads
\* ------------------------------------------------------------------------
NoThread == "none"
Announcers == {"a1", "a2"}
Adapters == {"e1"}
ControlLoop == "cm"
Senders == Adapters \cup {ControlLoop}

\* ------------------------------------------------------------------------
\* shardStateAction / shardStateType
\* ------------------------------------------------------------------------
actionBid == "ActionBid"
actionRejected == "ActionRejected"
actionFail == "ActionFail"
actionRun == "ActionRun"
actionPublish == "ActionPublish"
Actions == {actionBid, actionRejected, actionFail, actionRun, actionPublish}
\* the actions the event adapter delivers; Bid comes from the control loop
AdapterActions == {actionRejected, actionFail, actionRun, actionPublish}

shardInitialState == "InitialState"
shardEnqueued == "Enqueued"
shardBidding == "Bidding"
shardRunning == "Running"
shardPublishingToVerifier == "PublishingToVerifier"
shardVerifyingResults == "VerifyingResults"
shardPublishingToRequester == "PublishingToRequester"
shardError == "Error"
shardCompleted == "Completed"

\* errorMsg values
NoMsg == "none"
FailReason == "external failure"
ErrBid == "BidOnJob failed"
ErrRun == "failed to start container"
ErrWait == "container runtime error"
ErrExit == "exit code was not zero"
ErrFinished == "ShardExecutionFinished failed"
ErrPublish == "PublishShard failed"

\* resultProposal values
NoProposal == 0
Proposals == {1}

\* exit status codes of a container
ExitCodes == {0, 1}

\* the executions of a shard's container: the runtime fails before the
\* container runs ("start"), while waiting for it ("wait") or not at all
\* ("none"); exitCode is the status code the runtime reports; proposal is
\* what the verifier proposes for the results
Runs ==
  [failure : {"none", "wait"}, exitCode : ExitCodes, proposal : Proposals]
    \cup [failure : {"start"}, exitCode : {0}, proposal : Proposals]

VARIABLES
  shardStates,      \* manager: shard id -> fsm (0: no entry)
  shardStatesList,  \* manager: fsms in creation order
  mu,               \* manager mutex: the thread holding it
  nextFsm,          \* number of state machines constructed so far
  fsmShard,         \* fsm -> its shard (0: not constructed)
  fsmPc,            \* fsm -> position of its driver goroutine
  currentState, previousState, resultProposal, bidSent, errorMsg,
  chanClosed,       \* fsm -> its request channel was closed
  fsmMu,            \* fsm -> the holder of its own mutex
  out,              \* fsm -> outbound calls made so far
  visited,          \* fsm -> the states it transitioned to, in order
  reaped,           \* fsms removed by cleanupCompleted
  startPc, startArg, startFsm,  \* announcer threads inside StartShardStateIfNecessery
  snd,              \* sender threads inside sendRequest
  rbPc, backlog, admitted, bidIndex, free  \* capacity manager control loop

mgrVars == <<shardStates, shardStatesList, mu, nextFsm, reaped>>
fsmVars == <<fsmShard, fsmPc, currentState, previousState, resultProposal,
             bidSent, errorMsg, chanClosed, fsmMu, out, visited>>
startVars == <<startPc, startArg, startFsm>>
rbVars == <<rbPc, backlog, admitted, bidIndex, free>>
vars == <<mgrVars, fsmVars, startVars, snd, rbVars>>

NoCalls == [bidOnJob |-> 0, finished |-> 0, finishedProposal |-> NoProposal,
            publish |-> 0, publishOk |-> 0, shardError |-> 0,
            exitCode |-> <<>>]
IdleSender == [pc |-> "idle", fsm |-> 0, action |-> "none"]

Init ==
  /\ shardStates = [s \in Shards |-> 0]
  /\ shardStatesList = <<>>
  /\ mu = NoThread
  /\ nextFsm = 0
  /\ reaped = {}
  /\ fsmShard = [f \in FsmIds |-> 0]
  /\ fsmPc = [f \in FsmIds |-> "none"]
  /\ currentState = [f \in FsmIds |-> shardInitialState]
  /\ previousState = [f \in FsmIds |-> shardInitialState]
  /\ resultProposal = [f \in FsmIds |-> NoProposal]
  /\ bidSent = [f \in FsmIds |-> FALSE]
  /\ errorMsg = [f \in FsmIds |-> NoMsg]
  /\ chanClosed = [f \in FsmIds |-> FALSE]
  /\ fsmMu = [f \in FsmIds |-> NoThread]
  /\ out = [f \in FsmIds |-> NoCalls]
  /\ visited = [f \in FsmIds |-> <<>>]
  /\ startPc = [t \in Announcers |-> "idle"]
  /\ startArg = [t \in Announcers |-> 0]
  /\ startFsm = [t \in Announcers |-> 0]
  /\ snd = [t \in Senders |-> IdleSender]
  /\ rbPc = "idle"
  /\ backlog = <<>>
  /\ admitted = <<>>
  /\ bidIndex = 1
  /\ free = Total

\* ------------------------------------------------------------------------
\* shardStateMachineManager
\* ------------------------------------------------------------------------
\* mutant: Lock() excludes nobody
MuFree_NoLock == TRUE

\* m.mu.Lock() succeeds only when no thread holds the mutex
MuFree == mu = NoThread

\* mutant: the method returns with the manager mutex still locked
MuAtReturn_Held(t) == t

\* the holder of the manager mutex when Get, GetEnqueued or GetActive,
\* called by thread t, returns: `defer m.mu.Unlock()`
MuAtReturn(t) == NoThread

\* mutant: the entry of a Completed fsm does not count
HasShardState_SkipsCompleted(s) ==
  shardStates[s] # 0 /\ currentState[shardStates[s]] # shardCompleted

\* mutant: the lookup never finds the shard
HasShardState_Never(s) == FALSE

\* `_, ok := m.shardStates[shard.ID()]`
HasShardState(s) == shardStates[s] # 0

\* body of StartShardStateIfNecessery once the mutex is acquired, up to and
\* including `go shardState.Run(ctx)`
StartLocked(t, s) ==
  /\ IF ~HasShardState(s)
       THEN /\ nextFsm < MaxFsm
            /\ LET f == nextFsm + 1 IN
                 /\ nextFsm' = f
                 /\ fsmShard' = [fsmShard EXCEPT ![f] = s]
                 /\ fsmPc' = [fsmPc EXCEPT ![f] = "enqueuedState"]
                 /\ startFsm' = [startFsm EXCEPT ![t] = f]
            /\ mu' = t
            /\ startPc' = [startPc EXCEPT ![t] = "insert"]
            /\ startArg' = [startArg EXCEPT ![t] = s]
       ELSE \* fsm was already running: unlock and return
            /\ startPc' = [startPc EXCEPT ![t] = "idle"]
            /\ startArg' = [startArg EXCEPT ![t] = 0]
            /\ UNCHANGED <<nextFsm, fsmShard, fsmPc, startFsm, mu>>
  /\ UNCHANGED <<shardStates, shardStatesList, reaped, currentState, previousState,
                 resultProposal, bidSent, errorMsg, chanClosed, fsmMu, out, visited,
                 snd, rbVars>>

\* a call of StartShardStateIfNecessery that finds the mutex free
StartBegin(t, s) ==
  /\ startPc[t] = "idle"
  /\ MuFree
  /\ StartLocked(t, s)

\* a call of StartShardStateIfNecessery that finds the mutex held blocks in Lock
StartWait(t, s) ==
  /\ startPc[t] = "idle"
  /\ ~MuFree
  /\ startPc' = [startPc EXCEPT ![t] = "lock"]
  /\ startArg' = [startArg EXCEPT ![t] = s]
  /\ UNCHANGED <<mgrVars, fsmVars, startFsm, snd, rbVars>>

\* the blocked call acquires the mutex
StartAcquire(t) ==
  /\ startPc[t] = "lock"
  /\ MuFree
  /\ StartLocked(t, startArg[t])

\* m.shardStates[shard.ID()] = shardState
StartInsert(t) ==
  /\ startPc[t] = "insert"
  /\ shardStates' = [shardStates EXCEPT ![startArg[t]] = startFsm[t]]
  /\ startPc' = [startPc EXCEPT ![t] = "append"]
  /\ UNCHANGED <<shardStatesList, mu, nextFsm, reaped, fsmVars, startArg, startFsm,
                 snd, rbVars>>

\* m.shardStatesList = append(m.shardStatesList, shardState); deferred Unlock
StartAppend(t) ==
  /\ startPc[t] = "append"
  /\ shardStatesList' = Append(shardStatesList, startFsm[t])
  /\ mu' = NoThread
  /\ startPc' = [startPc EXCEPT ![t] = "idle"]
  /\ startArg' = [startArg EXCEPT ![t] = 0]
  /\ startFsm' = [startFsm EXCEPT ![t] = 0]
  /\ UNCHANGED <<shardStates, nextFsm, reaped, fsmVars, snd, rbVars>>

\* mutant: the loop has no break, firstActive ends as the index of the last
\* fsm of the list that is not completed
RECURSIVE FirstActive_NoBreak(_, _)
FirstActive_NoBreak(list, index) ==
  IF index > Len(list) THEN index
  ELSE IF \E i \in (index + 1)..Len(list) : currentState[list[i]] # shardCompleted
         THEN FirstActive_NoBreak(list, index + 1)
  ELSE IF currentState[list[index]] # shardCompleted THEN index
  ELSE Len(list) + 1

\* index of the first fsm of the list that is not completed (Len+1: none)
RECURSIVE FirstActive(_, _)
FirstActive(list, index) ==
  IF index > Len(list) THEN index
  ELSE IF currentState[list[index]] # shardCompleted THEN index
  ELSE FirstActive(list, index + 1)

\* the fsms cleanupCompleted deletes from the map and cuts off the list
CleanupRemoved(list) == {list[i] : i \in 1..(FirstActive(list, 1) - 1)}

\* mutant: the slice starts one past the first fsm that is not completed
CleanupList_DropsHead(list) == SubSeq(list, FirstActive(list, 1) + 1, Len(list))

\* the list cleanupCompleted leaves
CleanupList(list) == SubSeq(list, FirstActive(list, 1), Len(list))

\* mutant: the entries of the fsms cut off the list are not deleted
CleanupMap_KeepsEntries(list) == shardStates

\* mutant: the delete runs before the test for Completed, so the entry of the
\* first fsm that is not completed is deleted too
CleanupMap_DeletesHead(list) ==
  [s \in Shards |->
     IF \E i \in 1..Len(list) : i <= FirstActive(list, 1) /\ fsmShard[list[i]] = s
       THEN 0 ELSE shardStates[s]]

\* the map cleanupCompleted leaves: delete(m.shardStates, item.Shard.ID())
CleanupMap(list) ==
  [s \in Shards |->
     IF \E f \in CleanupRemoved(list) : fsmShard[f] = s THEN 0 ELSE shardStates[s]]

cleanupCompleted ==
  /\ shardStatesList' = CleanupList(shardStatesList)
  /\ shardStates' = CleanupMap(shardStatesList)
  /\ reaped' = reaped \cup CleanupRemoved(shardStatesList)

RECURSIVE Reverse(_)
Reverse(list) == IF list = <<>> THEN <<>> ELSE Append(Reverse(Tail(list)), Head(list))

\* mutant: the enqueued fsms are collected newest first
GetEnqueued_Reversed(list) ==
  Reverse(SelectSeq(list, LAMBDA f : currentState[f] = shardEnqueued))

\* GetEnqueued's filter over the cleaned list
GetEnqueued(list) == SelectSeq(list, LAMBDA f : currentState[f] = shardEnqueued)

\* GetActive's filter over the cleaned list
GetActive(list) ==
  SelectSeq(list, LAMBDA f : currentState[f] = shardBidding
                             \/ currentState[f] = shardRunning)

\* Get(flatID): 0 when there is no entry
Get(s) == shardStates[s]

\* ------------------------------------------------------------------------
\* shardStateMachine
\* ------------------------------------------------------------------------
nonFsmVars == <<mgrVars, startVars, rbVars>>

\* the holder of the fsm's mutex when transitionedTo returns:
\* `defer m.mu.Unlock()`
FsmMuAtReturn == NoThread

\* m.transitionedTo(ctx, newState), under the fsm's own mutex
transitionedTo(f, newState) ==
  /\ fsmMu[f] = NoThread
  /\ previousState' = [previousState EXCEPT ![f] = currentState[f]]
  /\ currentState' = [currentState EXCEPT ![f] = newState]
  /\ visited' = [visited EXCEPT ![f] = Append(@, newState)]
  /\ fsmMu' = [fsmMu EXCEPT ![f] = FsmMuAtReturn]

\* `req := <-m.req`: the rendezvous with one sender blocked in sendRequest
Receives(f, t) ==
  /\ snd[t].pc = "blocked"
  /\ snd[t].fsm = f
  /\ ~chanClosed[f]

Delivered(t) == snd' = [snd EXCEPT ![t] = IdleSender]

\* mutant: a Run that arrives before the bid starts the execution
enqueuedNext_RunRuns(action, bidOk) ==
  CASE action = actionBid -> IF bidOk THEN "biddingState" ELSE "errorState"
    [] action = actionFail -> "errorState"
    [] action = actionRun -> "runningState"
    [] OTHER -> "wait"

\* the switch of enqueuedState: the state function returned for an action
\* ("wait": the loop goes on), given the result of BidOnJob
enqueuedNext(action, bidOk) ==
  CASE action = actionBid -> IF bidOk THEN "biddingState" ELSE "errorState"
    [] action = actionFail -> "errorState"
    [] OTHER -> "wait"

\* mutant: a Bid that arrives while bidding sends the fsm back to Enqueued
biddingNext_BidReenqueues(action) ==
  CASE action = actionRun -> "runningState"
    [] action = actionRejected -> "completedState"
    [] action = actionFail -> "errorState"
    [] action = actionBid -> "enqueuedState"
    [] OTHER -> "wait"

\* mutant: a rejected bid is handled as a failure
biddingNext_RejectedFails(action) ==
  CASE action = actionRun -> "runningState"
    [] action = actionRejected -> "errorState"
    [] action = actionFail -> "errorState"
    [] OTHER -> "wait"

\* the switch of biddingState
biddingNext(action) ==
  CASE action = actionRun -> "runningState"
    [] action = actionRejected -> "completedState"
    [] action = actionFail -> "errorState"
    [] OTHER -> "wait"

\* mutant: an action that is not expected while verifying fails the fsm
verifyingNext_UnknownFails(action) ==
  CASE action = actionPublish -> "publishingToRequesterState"
    [] OTHER -> "errorState"

\* mutant: Publish ends the fsm without the results being published
verifyingNext_PublishCompletes(action) ==
  CASE action = actionPublish -> "completedState"
    [] action = actionFail -> "errorState"
    [] OTHER -> "wait"

\* mutant: a Fail while verifying ends the fsm without the Error state
verifyingNext_FailCompletes(action) ==
  CASE action = actionPublish -> "publishingToRequesterState"
    [] action = actionFail -> "completedState"
    [] OTHER -> "wait"

\* the switch of verifyingResultsState
verifyingNext(action) ==
  CASE action = actionPublish -> "publishingToRequesterState"
    [] action = actionFail -> "errorState"
    [] OTHER -> "wait"

\* mutants: the failure is never published / is published without a bid
ErrorEmits_Never(f) == FALSE
ErrorEmits_Always(f) == TRUE

\* errorState publishes the failure to the network only `if m.bidSent`
ErrorEmits(f) == bidSent[f]

\* mutant: bidSent is set before the result of BidOnJob is tested
bidSentAfter_BeforeTest(action, bidOk, sent) ==
  IF action = actionBid THEN TRUE ELSE sent

\* m.bidSent after one iteration of enqueuedState's loop: set on the Bid
\* branch, once BidOnJob has returned no error
bidSentAfter(action, bidOk, sent) ==
  IF action = actionBid /\ bidOk THEN TRUE ELSE sent

\* enqueuedState, up to the first receive
EnterEnqueued(f) ==
  /\ fsmPc[f] = "enqueuedState"
  /\ transitionedTo(f, shardEnqueued)
  /\ fsmPc' = [fsmPc EXCEPT ![f] = "recvEnqueued"]
  /\ UNCHANGED <<nonFsmVars, fsmShard, resultProposal, bidSent, errorMsg,
                 chanClosed, out, snd>>

\* enqueuedState: one iteration of the receive loop; bidOk: BidOnJob returns
\* no error
RecvEnqueued(f, t, bidOk) ==
  /\ fsmPc[f] = "recvEnqueued"
  /\ Receives(f, t)
  /\ Delivered(t)
  /\ LET a == snd[t].action
         nxt == enqueuedNext(a, bidOk) IN
       /\ fsmPc' = [fsmPc EXCEPT ![f] = IF nxt = "wait" THEN "recvEnqueued" ELSE nxt]
       /\ out' = [out EXCEPT ![f].bidOnJob = IF a = actionBid THEN @ + 1 ELSE @]
       /\ bidSent' = [bidSent EXCEPT ![f] = bidSentAfter(a, bidOk, @)]
       /\ errorMsg' = [errorMsg EXCEPT ![f] =
                         IF a = actionBid /\ ~bidOk THEN ErrBid
                         ELSE IF a = actionFail THEN FailReason ELSE @]
  /\ UNCHANGED <<nonFsmVars, fsmShard, currentState, previousState, visited,
                 resultProposal, chanClosed, fsmMu>>

\* biddingState, up to the first receive
EnterBidding(f) ==
  /\ fsmPc[f] = "biddingState"
  /\ transitionedTo(f, shardBidding)
  /\ fsmPc' = [fsmPc EXCEPT ![f] = "recvBidding"]
  /\ UNCHANGED <<nonFsmVars, fsmShard, resultProposal, bidSent, errorMsg,
                 chanClosed, out, snd>>

\* biddingState: one iteration of the receive loop
RecvBidding(f, t) ==
  /\ fsmPc[f] = "recvBidding"
  /\ Receives(f, t)
  /\ Delivered(t)
  /\ LET a == snd[t].action
         nxt == biddingNext(a) IN
       /\ fsmPc' = [fsmPc EXCEPT ![f] = IF nxt = "wait" THEN "recvBidding" ELSE nxt]
       /\ errorMsg' = [errorMsg EXCEPT ![f] = IF a = actionFail THEN FailReason ELSE @]
  /\ UNCHANGED <<nonFsmVars, fsmShard, currentState, previousState, visited,
                 resultProposal, bidSent, chanClosed, fsmMu, out>>

\* mutant: runningState takes a pending request off the channel and drops it
\* before it runs the shard
RunningState_Drains(f, run) ==
  /\ fsmPc[f] = "runningState"
  /\ \E t \in Senders : Receives(f, t) /\ Delivered(t)
  /\ UNCHANGED <<nonFsmVars, fsmVars>>

\* Executor.RunShard: the error returned once the container has stopped
\* (NoMsg: nil)
containerError(run) ==
  IF run.failure = "wait" THEN ErrWait
  ELSE IF run.exitCode # 0 THEN ErrExit
  ELSE NoMsg

\* Executor.RunShard: the error it returns
ExecutorRunShard(run) ==
  IF run.failure = "start" THEN ErrRun ELSE containerError(run)

\* Executor.RunShard: the exitCode file of the results directory (<<>>: not
\* written)
ExitCodeFile(run) ==
  IF run.failure = "start" THEN <<>> ELSE <<run.exitCode>>

\* ComputeNode.RunShard: an error of the executor is an error of the run and
\* no proposal is made for it
NodeRunShard(run) ==
  IF ExecutorRunShard(run) = NoMsg
    THEN [proposal |-> run.proposal, err |-> NoMsg]
    ELSE [proposal |-> NoProposal, err |-> ExecutorRunShard(run)]

\* mutant: the error of RunShard is not tested
runningNext_ErrorIgnored(err) == "publishingToVerifierState"

\* the switch of runningState on the error of RunShard
runningNext(err) ==
  IF err = NoMsg THEN "publishingToVerifierState" ELSE "errorState"

\* runningState: RunShard returns a proposal or an error
RunningState(f, run) ==
  /\ fsmPc[f] = "runningState"
  /\ transitionedTo(f, shardRunning)
  /\ out' = [out EXCEPT ![f].exitCode = ExitCodeFile(run)]
  /\ LET res == NodeRunShard(run) IN
       /\ fsmPc' = [fsmPc EXCEPT ![f] = runningNext(res.err)]
       /\ IF res.err = NoMsg
            THEN /\ resultProposal' = [resultProposal EXCEPT ![f] = res.proposal]
                 /\ UNCHANGED errorMsg
            ELSE /\ errorMsg' = [errorMsg EXCEPT ![f] = res.err]
                 /\ UNCHANGED resultProposal
  /\ UNCHANGED <<nonFsmVars, fsmShard, bidSent, chanClosed, snd>>

\* publishingToVerifierState: controller.ShardExecutionFinished returns no
\* error (ok) or an error
PublishingToVerifierState(f, ok) ==
  /\ fsmPc[f] = "publishingToVerifierState"
  /\ transitionedTo(f, shardPublishingToVerifier)
  /\ out' = [out EXCEPT ![f].finished = @ + 1,
                        ![f].finishedProposal = resultProposal[f]]
  /\ IF ok
       THEN /\ fsmPc' = [fsmPc EXCEPT ![f] = "verifyingResultsState"]
            /\ UNCHANGED errorMsg
       ELSE /\ errorMsg' = [errorMsg EXCEPT ![f] = ErrFinished]
            /\ fsmPc' = [fsmPc EXCEPT ![f] = "errorState"]
  /\ UNCHANGED <<nonFsmVars, fsmShard, resultProposal, bidSent, chanClosed,
                 snd>>

\* verifyingResultsState, up to the first receive
EnterVerifying(f) ==
  /\ fsmPc[f] = "verifyingResultsState"
  /\ transitionedTo(f, shardVerifyingResults)
  /\ fsmPc' = [fsmPc EXCEPT ![f] = "recvVerifying"]
  /\ UNCHANGED <<nonFsmVars, fsmShard, resultProposal, bidSent, errorMsg,
                 chanClosed, out, snd>>

\* verifyingResultsState: one iteration of the receive loop
RecvVerifying(f, t) ==
  /\ fsmPc[f] = "recvVerifying"
  /\ Receives(f, t)
  /\ Delivered(t)
  /\ LET a == snd[t].action
         nxt == verifyingNext(a) IN
       /\ fsmPc' = [fsmPc EXCEPT ![f] = IF nxt = "wait" THEN "recvVerifying" ELSE nxt]
       /\ errorMsg' = [errorMsg EXCEPT ![f] = IF a = actionFail THEN FailReason ELSE @]
  /\ UNCHANGED <<nonFsmVars, fsmShard, currentState, previousState, visited,
                 resultProposal, bidSent, chanClosed, fsmMu, out>>

\* publishingToRequesterState: node.PublishShard returns no error (ok) or an
\* error
PublishingToRequesterState(f, ok) ==
  /\ fsmPc[f] = "publishingToRequesterState"
  /\ transitionedTo(f, shardPublishingToRequester)
  /\ IF ok
       THEN /\ out' = [out EXCEPT ![f].publish = @ + 1, ![f].publishOk = @ + 1]
            /\ fsmPc' = [fsmPc EXCEPT ![f] = "completedState"]
            /\ UNCHANGED errorMsg
       ELSE /\ out' = [out EXCEPT ![f].publish = @ + 1]
            /\ errorMsg' = [errorMsg EXCEPT ![f] = ErrPublish]
            /\ fsmPc' = [fsmPc EXCEPT ![f] = "errorState"]
  /\ UNCHANGED <<nonFsmVars, fsmShard, resultProposal, bidSent, chanClosed,
                 snd>>

\* errorState: controller.ShardError, whose own error is only logged
ErrorState(f) ==
  /\ fsmPc[f] = "errorState"
  /\ transitionedTo(f, shardError)
  /\ out' = [out EXCEPT ![f].shardError = IF ErrorEmits(f) THEN @ + 1 ELSE @]
  /\ fsmPc' = [fsmPc EXCEPT ![f] = "completedState"]
  /\ UNCHANGED <<nonFsmVars, fsmShard, resultProposal, bidSent, errorMsg,
                 chanClosed, snd>>

\* mutant: completedState closes the request channel itself, and Run closes
\* it again
CompletedState_AlsoCloses(f) ==
  /\ fsmPc[f] = "completedState"
  /\ transitionedTo(f, shardCompleted)
  /\ chanClosed' = [chanClosed EXCEPT ![f] = TRUE]
  /\ fsmPc' = [fsmPc EXCEPT ![f] = "close"]
  /\ UNCHANGED <<nonFsmVars, fsmShard, resultProposal, bidSent, errorMsg,
                 out, snd>>

\* completedState returns nil, which ends the loop of Run
CompletedState(f) ==
  /\ fsmPc[f] = "completedState"
  /\ transitionedTo(f, shardCompleted)
  /\ fsmPc' = [fsmPc EXCEPT ![f] = "close"]
  /\ UNCHANGED <<nonFsmVars, fsmShard, resultProposal, bidSent, errorMsg,
                 chanClosed, out, snd>>

\* mutant: Run returns without closing the channel
ClosedByRun_Never == FALSE

\* what Run does to the request channel once the loop has ended: close(m.req)
ClosedByRun == TRUE

\* Run: close(m.req) and return
Close(f) ==
  /\ fsmPc[f] = "close"
  /\ chanClosed' = [chanClosed EXCEPT ![f] = ClosedByRun]
  /\ fsmPc' = [fsmPc EXCEPT ![f] = "done"]
  /\ UNCHANGED <<nonFsmVars, fsmShard, currentState, previousState, visited,
                 resultProposal, bidSent, errorMsg, fsmMu, out, snd>>

\* ------------------------------------------------------------------------
\* sendRequest
\* ------------------------------------------------------------------------
\* mutant: no deferred recover, the panic escapes sendRequest
SendOnClosedEnds_Panics == "panicked"

\* where a send on the closed channel takes the caller: the panic is caught
\* by the deferred function of sendRequest, whose recover() returns non-nil
SendOnClosedEnds == "recovered"

\* the event adapter routes an event: Get(shardID), then sendRequest blocks
\* on the unbuffered channel; an event for an unknown shard is dropped
AdapterSend(t, s, a) ==
  /\ snd[t].pc = "idle"
  /\ MuFree
  /\ Get(s) # 0
  /\ snd' = [snd EXCEPT ![t] = [pc |-> "blocked", fsm |-> Get(s), action |-> a]]
  /\ mu' = MuAtReturn(t)
  /\ UNCHANGED <<shardStates, shardStatesList, nextFsm, reaped, fsmVars,
                 startVars, rbVars>>

\* `m.req <- request` on a closed channel panics; see SendOnClosedEnds
SendOnClosed(t) ==
  /\ snd[t].pc = "blocked"
  /\ chanClosed[snd[t].fsm]
  /\ snd' = [snd EXCEPT ![t].pc = SendOnClosedEnds]
  /\ UNCHANGED <<mgrVars, fsmVars, startVars, rbVars>>

\* the deferred function logs "ignoring action after channel closed" and
\* sendRequest returns to its caller
SendRecovered(t) ==
  /\ snd[t].pc = "recovered"
  /\ snd' = [snd EXCEPT ![t] = IdleSender]
  /\ UNCHANGED <<mgrVars, fsmVars, startVars, rbVars>>

\* ------------------------------------------------------------------------
\* Capacity manager: the periodic rebalance pass of the control loop
\* ------------------------------------------------------------------------
RECURSIVE SumRequirements(_)
SumRequirements(items) ==
  IF items = <<>> THEN 0
  ELSE Requirements(fsmShard[Head(items)]) + SumRequirements(Tail(items))

\* strict head-of-line admission: the longest prefix of the backlog that
\* fits the free capacity
RECURSIVE HeadOfLine(_, _)
HeadOfLine(items, fr) ==
  IF items = <<>> THEN <<>>
  ELSE LET need == Requirements(fsmShard[Head(items)]) IN
       IF need <= fr THEN <<Head(items)>> \o HeadOfLine(Tail(items), fr - need)
       ELSE <<>>

\* saturating subtraction of resource usage
Minus(a, b) == IF a >= b THEN a - b ELSE 0

\* BacklogIterator: the snapshot GetEnqueued returns, taken under the manager
\* mutex with the reaper run first
RebalanceBacklog ==
  /\ rbPc = "idle"
  /\ MuFree
  /\ cleanupCompleted
  /\ backlog' = GetEnqueued(CleanupList(shardStatesList))
  /\ rbPc' = "backlog"
  /\ mu' = MuAtReturn(ControlLoop)
  /\ UNCHANGED <<nextFsm, fsmVars, startVars, snd, admitted, bidIndex, free>>

\* BacklogIterator: the handler walks the snapshot and reserves capacity for
\* the shards admitted in this pass
RebalanceAdmit ==
  /\ rbPc = "backlog"
  /\ LET adm == HeadOfLine(backlog, free) IN
       /\ admitted' = [i \in 1..Len(adm) |-> fsmShard[adm[i]]]
       /\ free' = Minus(free, SumRequirements(adm))
  /\ bidIndex' = 1
  /\ rbPc' = "bid"
  /\ UNCHANGED <<mgrVars, fsmVars, startVars, snd, backlog>>

\* the next admitted shard is sent Bid: Get(shardID).Bid(ctx); the event is
\* dropped when the fsm is gone
RebalanceBid ==
  /\ rbPc = "bid"
  /\ bidIndex <= Len(admitted)
  /\ snd[ControlLoop].pc = "idle"
  /\ MuFree
  /\ bidIndex' = bidIndex + 1
  /\ snd' = IF Get(admitted[bidIndex]) # 0
              THEN [snd EXCEPT ![ControlLoop] =
                      [pc |-> "blocked", fsm |-> Get(admitted[bidIndex]),
                       action |-> actionBid]]
              ELSE snd
  /\ mu' = MuAtReturn(ControlLoop)
  /\ UNCHANGED <<shardStates, shardStatesList, nextFsm, reaped, fsmVars,
                 startVars, rbPc, backlog, admitted, free>>

\* ActiveIterator: GetActive under the manager mutex (reaper first), then the
\* running total is refreshed from the active shards; the pass ends
RebalanceActive ==
  /\ rbPc = "bid"
  /\ bidIndex > Len(admitted)
  /\ snd[ControlLoop].pc = "idle"
  /\ MuFree
  /\ cleanupCompleted
  /\ free' = Minus(Total, SumRequirements(GetActive(CleanupList(shardStatesList))))
  /\ rbPc' = "idle"
  /\ backlog' = <<>>
  /\ admitted' = <<>>
  /\ bidIndex' = 1
  /\ mu' = MuAtReturn(ControlLoop)
  /\ UNCHANGED <<nextFsm, fsmVars, startVars, snd>>

\* ------------------------------------------------------------------------
\* Specifications
\* ------------------------------------------------------------------------
Created == 1..nextFsm

\* the steps of the driver goroutine of fsm f, every outcome of the outbound
\* calls included
FsmStep(f) ==
  \/ EnterEnqueued(f)
  \/ \E t \in Senders, bidOk \in BOOLEAN : RecvEnqueued(f, t, bidOk)
  \/ EnterBidding(f)
  \/ \E t \in Senders : RecvBidding(f, t)
  \/ \E run \in Runs : RunningState(f, run)
  \/ \E ok \in BOOLEAN : PublishingToVerifierState(f, ok)
  \/ EnterVerifying(f)
  \/ \E t \in Senders : RecvVerifying(f, t)
  \/ \E ok \in BOOLEAN : PublishingToRequesterState(f, ok)
  \/ ErrorState(f)
  \/ CompletedState(f)
  \/ Close(f)

SenderStep ==
  \/ \E t \in Senders : SendOnClosed(t)
  \/ \E t \in Senders : SendRecovered(t)

Rebalance ==
  \/ RebalanceBacklog
  \/ RebalanceAdmit
  \/ RebalanceBid
  \/ RebalanceActive

\* Spec: the announcers, one event adapter, the control loop and the fsm
\* drivers; SpecShards shards announced, SpecFsm state machines constructed
Next ==
  \/ \E t \in Announcers, s \in 1..SpecShards :
       nextFsm < SpecFsm /\ StartBegin(t, s)
  \/ \E t \in Announcers : StartInsert(t)
  \/ \E t \in Announcers : StartAppend(t)
  \/ \E t \in Adapters, s \in 1..SpecShards, a \in AdapterActions : AdapterSend(t, s, a)
  \/ SenderStep
  \/ Rebalance
  \/ \E f \in FsmIds : FsmStep(f)

Spec == Init /\ [][Next]_vars

\* SpecDup: two announcers calling StartShardStateIfNecessery concurrently,
\* the fsm drivers and external failures; no GetEnqueued / GetActive runs
NextDup ==
  \/ \E t \in Announcers, s \in Shards : StartBegin(t, s)
  \/ \E t \in Announcers, s \in Shards : StartWait(t, s)
  \/ \E t \in Announcers : StartAcquire(t)
  \/ \E t \in Announcers : StartInsert(t)
  \/ \E t \in Announcers : StartAppend(t)
  \/ \E t \in Adapters, s \in Shards : AdapterSend(t, s, actionFail)
  \/ \E t \in Adapters : SendOnClosed(t)
  \/ \E t \in Adapters : SendRecovered(t)
  \/ \E f \in FsmIds :
       \/ EnterEnqueued(f)
       \/ \E t \in Adapters : RecvEnqueued(f, t, TRUE)
       \/ ErrorState(f)
       \/ CompletedState(f)
       \/ Close(f)

SpecDup == Init /\ [][NextDup]_vars

\* SpecHol: the control loop with MaxFsm state machines over all the shards,
\* with peers that reject a bid or stay silent
NextHol ==
  \/ \E s \in Shards : StartBegin("a1", s)
  \/ StartInsert("a1")
  \/ StartAppend("a1")
  \/ \E t \in Adapters, s \in Shards : AdapterSend(t, s, actionRejected)
  \/ SenderStep
  \/ Rebalance
  \/ \E f \in FsmIds :
       \/ EnterEnqueued(f)
       \/ \E t \in Senders : RecvEnqueued(f, t, TRUE)
       \/ EnterBidding(f)
       \/ \E t \in Senders : RecvBidding(f, t)
       \/ CompletedState(f)
       \/ Close(f)

SpecHol == Init /\ [][NextHol]_vars

\* SpecLive: the senders and the driver of the successive state machines of
\* one shard (LiveFsm of them), every action and outcome as under Spec, with
\* the scheduler's fairness: a goroutine that can run its next step without
\* waiting for another one eventually runs it
FirstShard == CHOOSE s \in Shards : \A x \in Shards : s <= x

NextLive ==
  \/ nextFsm < LiveFsm /\ StartBegin("a1", FirstShard)
  \/ StartInsert("a1")
  \/ StartAppend("a1")
  \/ \E t \in Adapters, a \in AdapterActions : AdapterSend(t, FirstShard, a)
  \/ SenderStep
  \/ Rebalance
  \/ \E f \in FsmIds : FsmStep(f)

Fairness ==
  /\ \A f \in FsmIds : WF_vars(ErrorState(f) \/ CompletedState(f) \/ Close(f))
  /\ \A t \in Senders : WF_vars(SendOnClosed(t) \/ SendRecovered(t))

SpecLive == Init /\ [][NextLive]_vars /\ Fairness

\* SpecGone: the peers have disappeared: the control loop still sends Bid,
\* but no Run, Rejected, Publish or Fail is ever sent to an fsm; every
\* goroutine that can run a step eventually runs it
NextGone ==
  \/ \E s \in 1..SpecShards : nextFsm < SpecFsm /\ StartBegin("a1", s)
  \/ StartInsert("a1")
  \/ StartAppend("a1")
  \/ SenderStep
  \/ Rebalance
  \/ \E f \in FsmIds :
       \/ EnterEnqueued(f)
       \/ \E t \in Senders, bidOk \in BOOLEAN : RecvEnqueued(f, t, bidOk)
       \/ EnterBidding(f)
       \/ \E t \in Senders : RecvBidding(f, t)
       \/ ErrorState(f)
       \/ CompletedState(f)
       \/ Close(f)

FairnessGone ==
  /\ \A f \in FsmIds : WF_vars(FsmStep(f))
  /\ WF_vars(SenderStep)
  /\ WF_vars(Rebalance)
  /\ WF_vars(StartInsert("a1") \/ StartAppend("a1"))

SpecGone == Init /\ [][NextGone]_vars /\ FairnessGone

\* SpecBid: as SpecLive without its fairness, with an event adapter that also
\* sends Bid, at any time and next to the Bids of the control loop
NextBid ==
  \/ nextFsm < LiveFsm /\ StartBegin("a1", FirstShard)
  \/ StartInsert("a1")
  \/ StartAppend("a1")
  \/ \E t \in Adapters, a \in Actions : AdapterSend(t, FirstShard, a)
  \/ SenderStep
  \/ Rebalance
  \/ \E f \in FsmIds : FsmStep(f)

SpecBid == Init /\ [][NextBid]_vars

\* ------------------------------------------------------------------------
\* Properties
\* ------------------------------------------------------------------------
ActiveStates == {shardBidding, shardRunning, shardPublishingToVerifier,
                 shardVerifyingResults, shardPublishingToRequester}

RECURSIVE SumOver(_)
SumOver(fsms) ==
  IF fsms = {} THEN 0
  ELSE LET f == CHOOSE x \in fsms : TRUE IN
       Requirements(fsmShard[f]) + SumOver(fsms \ {f})

\* the requirements of all fsms that hold capacity
Committed == SumOver({f \in Created : currentState[f] \in ActiveStates})

\* C1: the requirements of the fsms in Bidding, Running, PublishingToVerifier,
\* VerifyingResults and PublishingToRequester never sum to more than the
\* node's total capacity
C1_NoOverCommit == Committed <= Total

\* f has an entry in the lookup map or in the ordered list
Registered(f) ==
  \/ shardStates[fsmShard[f]] = f
  \/ \E i \in 1..Len(shardStatesList) : shardStatesList[i] = f

\* f is registered in the manager and its driver goroutine has not returned
Live(f) == f \in Created /\ Registered(f) /\ fsmPc[f] # "done"

FsmsOf(s) == {f \in Created : fsmShard[f] = s}

\* C2: every shard id has at most one live fsm
C2_AtMostOneLive ==
  \A s \in Shards : Cardinality({f \in FsmsOf(s) : Live(f)}) <= 1

\* C2 witness: a shard was announced again after its first fsm was reaped;
\* the old fsm is gone and exactly the new one is live
C2_Witness ==
  \E s \in Shards : \E f, g \in FsmsOf(s) :
    /\ f # g
    /\ ~Live(f)
    /\ Live(g)
    /\ currentState[g] = shardBidding

Finished(f) == out[f].finished >= 1
Published(f) == out[f].publish >= 1
PublishedOk(f) == out[f].publishOk >= 1
ErrorSent(f) == out[f].shardError >= 1

\* C3 as stated: a completed fsm that had sent its bid has either invoked
\* ShardExecutionFinished and PublishShard, or ShardError, never both and
\* never neither
C3_Original ==
  \A f \in Created :
    (currentState[f] = shardCompleted /\ bidSent[f]) =>
      ((Finished(f) /\ Published(f)) # ErrorSent(f))

\* the bid was refused by the peer: Bidding -> Completed without an outcome call
PeerRejected(f) ==
  /\ previousState[f] = shardBidding
  /\ ~Finished(f) /\ ~Published(f) /\ ~ErrorSent(f)

\* C3 amended: a completed fsm that had sent its bid shows exactly one of:
\* ShardExecutionFinished and PublishShard both invoked and PublishShard
\* returned no error; ShardError invoked; the peer rejected the bid and no
\* outcome call was made
C3_Outcome ==
  \A f \in Created :
    (currentState[f] = shardCompleted /\ bidSent[f]) =>
      /\ (Finished(f) /\ PublishedOk(f)) \/ ErrorSent(f) \/ PeerRejected(f)
      /\ ~((Finished(f) /\ PublishedOk(f)) /\ ErrorSent(f))
      /\ ~(PeerRejected(f) /\ (PublishedOk(f) \/ ErrorSent(f)))

\* C3 witness: PublishShard was invoked and failed, so the outcome is the
\* ShardError
C3_Witness ==
  \E f \in Created :
    /\ currentState[f] = shardCompleted /\ bidSent[f]
    /\ Finished(f) /\ Published(f) /\ ~PublishedOk(f) /\ ErrorSent(f)

\* C4: an fsm that completed through Error after its bid was sent has
\* invoked ShardError exactly once
C4_ExactlyOneShardError ==
  \A f \in Created :
    (currentState[f] = shardCompleted /\ previousState[f] = shardError /\ bidSent[f])
      => out[f].shardError = 1

\* C4 witness: an external Fail after the bid, reported once
C4_Witness ==
  \E f \in Created :
    /\ currentState[f] = shardCompleted /\ previousState[f] = shardError
    /\ bidSent[f] /\ errorMsg[f] = FailReason /\ out[f].shardError = 1

IsPrefix(p, q) == Len(p) <= Len(q) /\ \A i \in 1..Len(p) : p[i] = q[i]

\* the fsm failed and no bid had been sent
FailedBeforeBid(f) == ~bidSent[f] /\ errorMsg[f] # NoMsg

\* C5: an fsm that fails before its bid was sent goes Enqueued -> Error ->
\* Completed, keeps bidSent false and emits no ShardError; after a Fail in
\* Enqueued BidOnJob was never invoked
C5_FailBeforeBid ==
  \A f \in Created :
    FailedBeforeBid(f) =>
      /\ visited[f] # <<>>
      /\ IsPrefix(visited[f], <<shardEnqueued, shardError, shardCompleted>>)
      /\ fsmPc[f] \in {"close", "done"} =>
           visited[f] = <<shardEnqueued, shardError, shardCompleted>>
      /\ fsmPc[f] \in {"errorState", "completedState", "close", "done"}
      /\ out[f].shardError = 0
      /\ errorMsg[f] \in {FailReason, ErrBid}
      /\ errorMsg[f] = FailReason => out[f].bidOnJob = 0
      /\ errorMsg[f] = ErrBid => out[f].bidOnJob = 1

\* C5 witness: BidOnJob returned an error and the fsm completed
C5_Witness ==
  \E f \in Created :
    /\ FailedBeforeBid(f) /\ errorMsg[f] = ErrBid
    /\ currentState[f] = shardCompleted

\* no field of f and no outbound call of f changes in this step
FsmUntouched(f) ==
  /\ currentState'[f] = currentState[f]
  /\ previousState'[f] = previousState[f]
  /\ bidSent'[f] = bidSent[f]
  /\ errorMsg'[f] = errorMsg[f]
  /\ resultProposal'[f] = resultProposal[f]
  /\ out'[f] = out[f]

\* C6: an action sent to a Completed fsm changes no field of it and causes
\* no outbound call, and the sender gets out of sendRequest through the
\* recovered panic only
C6_CompletedIgnores ==
  [][\A f \in FsmIds :
       currentState[f] = shardCompleted =>
         /\ FsmUntouched(f)
         /\ \A t \in Senders :
              snd[t].fsm = f =>
                /\ snd[t].pc = "blocked" => snd'[t].pc \in {"blocked", "recovered"}
                /\ snd[t].pc = "recovered" => snd'[t].pc \in {"recovered", "idle"}]_vars

\* C6 witness: a stale Publish for a Completed fsm was dropped
C6_Witness ==
  \E t \in Adapters :
    /\ snd[t].pc = "recovered"
    /\ snd[t].action = actionPublish
    /\ currentState[snd[t].fsm] = shardCompleted

\* C9 as stated: all the calls for one shard construct one fsm in total
C9_Original == \A s \in Shards : Cardinality(FsmsOf(s)) <= 1

\* C9 amended: the calls for one shard construct exactly one fsm as long as
\* no reaper pass removed that shard's fsm between them: a shard never has
\* two fsms that were not reaped, and one is constructed only when all the
\* earlier ones of the shard were reaped
C9_OneFsmUntilReaped ==
  \A s \in Shards : Cardinality(FsmsOf(s) \ reaped) <= 1

\* C9 witness: the shard's first fsm was reaped, a later call constructed
\* the second one
C9_Witness ==
  \E s \in Shards : \E f, g \in FsmsOf(s) :
    /\ f \in reaped
    /\ g \notin reaped
    /\ currentState[g] = shardEnqueued
    /\ shardStates[s] = g

\* the driver of f is on its way out: no receive is left before close
Terminating(f) == fsmPc[f] \in {"errorState", "completedState", "close", "done"}

\* C7: a sendRequest blocked on an fsm that has terminated, or that
\* terminates meanwhile, eventually returns
C7_SenderReturns ==
  \A t \in Senders :
    (snd[t].pc = "blocked" /\ Terminating(snd[t].fsm)) ~> (snd[t].pc = "idle")

\* C7 witness: a sender is blocked on the channel of a Completed fsm whose
\* driver has not closed it yet
C7_Witness ==
  \E t \in Senders :
    /\ snd[t].pc = "blocked"
    /\ currentState[snd[t].fsm] = shardCompleted
    /\ fsmPc[snd[t].fsm] = "close"
    /\ ~chanClosed[snd[t].fsm]

\* C10: concurrent calls for one shard leave exactly one fsm (and driver
\* goroutine), one entry of the ordered list and one entry of the lookup map
C10_ConcurrentStartOnce ==
  \A s \in Shards :
    /\ Cardinality(FsmsOf(s)) <= 1
    /\ Cardinality({i \in 1..Len(shardStatesList) : fsmShard[shardStatesList[i]] = s}) <= 1
    /\ (FsmsOf(s) # {} /\ \A t \in Announcers : startArg[t] = s => startPc[t] = "lock")
         => /\ shardStates[s] \in FsmsOf(s)
            /\ Cardinality({i \in 1..Len(shardStatesList) : shardStatesList[i] = shardStates[s]}) = 1
            /\ fsmPc[shardStates[s]] # "none"

\* C10 witness: one call is inside the critical section for a shard while
\* the other call for the same shard is blocked in Lock
C10_Witness ==
  \E t, u \in Announcers :
    /\ startPc[t] = "append"
    /\ startPc[u] = "lock"
    /\ startArg[t] = startArg[u]

Fits(f, fr) == Requirements(fsmShard[f]) <= fr

NotCompleted(list) == SelectSeq(list, LAMBDA f : currentState[f] # shardCompleted)

\* C11: in every step the fsms of the ordered list that are not completed
\* stay in the list in the same relative order (new ones are added behind
\* them), the list holds the fsms in the order of their insertion, and an fsm
\* that is not completed keeps its entry of the lookup map
C11_ReaperKeepsOrder ==
  [][/\ IsPrefix(NotCompleted(shardStatesList), NotCompleted(shardStatesList'))
     /\ \A i, j \in 1..Len(shardStatesList') :
          i < j => shardStatesList'[i] < shardStatesList'[j]
     /\ \A f \in Created :
          (currentState[f] # shardCompleted /\ shardStates[fsmShard[f]] = f)
            => shardStates'[fsmShard[f]] = f]_vars

\* C11 witness: the reaper has removed a completed fsm from the front and
\* left an fsm that is not completed with a completed one behind it
C11_Witness ==
  /\ reaped # {}
  /\ Len(shardStatesList) >= 2
  /\ currentState[shardStatesList[1]] = shardBidding
  /\ currentState[shardStatesList[2]] = shardCompleted
  /\ shardStates[fsmShard[shardStatesList[1]]] = shardStatesList[1]

\* C12: bidSent of an fsm is never cleared, and the step that sets it is the
\* one in which BidOnJob was called and returned no error: the call is
\* counted, no error message is stored and the driver goes on to biddingState
C12_BidSentMonotonic ==
  [][\A f \in FsmIds :
       /\ bidSent[f] => bidSent'[f]
       /\ (~bidSent[f] /\ bidSent'[f]) =>
            /\ out'[f].bidOnJob = out[f].bidOnJob + 1
            /\ errorMsg'[f] = errorMsg[f]
            /\ currentState[f] = shardEnqueued
            /\ fsmPc'[f] = "biddingState"]_vars

\* C12 witness: the bid was sent, later outbound calls failed, and the
\* completed fsm still has bidSent set
C12_Witness ==
  \E f \in Created :
    /\ bidSent[f]
    /\ currentState[f] = shardCompleted
    /\ errorMsg[f] = ErrPublish
    /\ fsmPc[f] = "done"

\* C13: the request channel of an fsm changes from open to closed only, in
\* the step of the fsm's own driver that ends Run, with the fsm Completed; a
\* driver that is about to close finds the channel open, and once the channel
\* is closed the fsm is Completed and its driver has returned
C13_ClosedOnce ==
  [][\A f \in FsmIds :
       /\ chanClosed[f] # chanClosed'[f] =>
            /\ ~chanClosed[f]
            /\ fsmPc[f] = "close" /\ fsmPc'[f] = "done"
            /\ currentState[f] = shardCompleted
            /\ snd' = snd /\ rbPc' = rbPc /\ startPc' = startPc
       /\ fsmPc'[f] = "close" => ~chanClosed'[f]
       /\ chanClosed'[f] =>
            currentState'[f] = shardCompleted /\ fsmPc'[f] = "done"]_vars

\* C13 witness: an fsm that ended through Error has closed its channel
\* while a sender was blocked on it
C13_Witness ==
  \E f \in Created : \E t \in Senders :
    /\ chanClosed[f]
    /\ previousState[f] = shardError
    /\ snd[t].pc = "blocked" /\ snd[t].fsm = f

HappyPath ==
  <<shardEnqueued, shardBidding, shardRunning, shardPublishingToVerifier,
    shardVerifyingResults, shardPublishingToRequester, shardCompleted>>

Visited(f, state) == \E i \in 1..Len(visited[f]) : visited[f][i] = state

\* C14: an fsm for which no Fail was taken and no outbound call failed
\* moves along Enqueued, Bidding, Running, PublishingToVerifier,
\* VerifyingResults, PublishingToRequester, Completed (or, refused by the
\* peer, Enqueued, Bidding, Completed); when it has received Bid, Run and
\* Publish and ended, it has visited exactly these seven states in order and
\* made one BidOnJob call, one ShardExecutionFinished call carrying the
\* proposal RunShard returned, one PublishShard call and no ShardError call
C14_HappyPath ==
  \A f \in Created :
    errorMsg[f] = NoMsg =>
      /\ \/ IsPrefix(visited[f], HappyPath)
         \/ visited[f] = <<shardEnqueued, shardBidding, shardCompleted>>
      /\ (currentState[f] = shardCompleted /\ Visited(f, shardRunning)) =>
           /\ visited[f] = HappyPath
           /\ out[f].bidOnJob = 1
           /\ out[f].finished = 1
           /\ resultProposal[f] \in Proposals
           /\ out[f].finishedProposal = resultProposal[f]
           /\ out[f].publish = 1 /\ out[f].publishOk = 1
           /\ out[f].shardError = 0
           /\ out[f].exitCode = <<0>>

\* C14 witness: an fsm has run the whole happy path and its driver returned
C14_Witness ==
  \E f \in Created :
    /\ errorMsg[f] = NoMsg
    /\ fsmPc[f] = "done"
    /\ visited[f] = HappyPath
    /\ out[f].finishedProposal \in Proposals

Occurrences(seq, f) == Cardinality({i \in 1..Len(seq) : seq[i] = f})

\* seq holds, in admission order and once each, exactly the fsms whose
\* current state is one of states
VisitsExactly(seq, states) ==
  /\ \A i, j \in 1..Len(seq) : i < j => seq[i] < seq[j]
  /\ \A f \in FsmIds :
       Occurrences(seq, f) = IF f \in Created /\ currentState[f] \in states THEN 1 ELSE 0

\* C15: BacklogIterator passes to its handler, in admission order and once
\* each, exactly the fsms in Enqueued, and ActiveIterator exactly the fsms in
\* Bidding, Running, PublishingToVerifier, VerifyingResults and
\* PublishingToRequester, so that the capacity in use is the sum of their
\* requirements; no fsm in Completed or Error is passed to either
C15_IteratorsVisit ==
  [][/\ (rbPc = "idle" /\ rbPc' = "backlog") =>
          VisitsExactly(backlog', {shardEnqueued})
     /\ (rbPc = "bid" /\ rbPc' = "idle") =>
          /\ VisitsExactly(GetActive(shardStatesList'), ActiveStates)
          /\ free' = Minus(Total, Committed)]_vars

\* C16: when the container of an fsm's shard has run to completion with a
\* non-zero exit code and the runtime has not failed, the exit code is in the
\* exitCode file, a result proposal is produced and the fsm goes on from
\* Running to PublishingToVerifier, with no error stored
C16_NonZeroExitPublishes ==
  [][\A f \in FsmIds :
       (/\ currentState[f] = shardBidding /\ currentState'[f] = shardRunning
        /\ Len(out'[f].exitCode) = 1
        /\ out'[f].exitCode[1] # 0
        /\ errorMsg'[f] # ErrWait)
         => /\ fsmPc'[f] = "publishingToVerifierState"
            /\ resultProposal'[f] \in Proposals
            /\ errorMsg'[f] = NoMsg]_vars

\* fsm f takes from sender t the action it was blocked with
Takes(f, t, action) ==
  /\ snd[t].pc = "blocked" /\ snd[t].fsm = f /\ snd[t].action = action
  /\ snd'[t].pc = "idle"

\* C17: an fsm waiting in Bidding that takes Rejected goes on to
\* completedState with no error stored and no outbound call; an fsm that
\* went from Bidding to Completed has visited Enqueued, Bidding, Completed
\* only, has bidSent set and has emitted no ShardError
C17_RejectedIsClean ==
  [][\A f \in FsmIds :
       /\ (fsmPc[f] = "recvBidding" /\ \E t \in Senders : Takes(f, t, actionRejected)) =>
            /\ fsmPc'[f] = "completedState"
            /\ errorMsg'[f] = NoMsg
            /\ out'[f] = out[f]
       /\ (previousState'[f] = shardBidding /\ currentState'[f] = shardCompleted) =>
            /\ visited'[f] = <<shardEnqueued, shardBidding, shardCompleted>>
            /\ bidSent'[f]
            /\ out'[f].shardError = 0]_vars

\* C17 witness: a rejected fsm has ended, its bid sent and no ShardError
\* emitted
C17_Witness ==
  \E f \in Created :
    /\ fsmPc[f] = "done"
    /\ previousState[f] = shardBidding /\ currentState[f] = shardCompleted
    /\ bidSent[f] /\ out[f].shardError = 0

TransitionTable ==
  {<<shardInitialState, shardEnqueued>>,
   <<shardEnqueued, shardBidding>>, <<shardEnqueued, shardError>>,
   <<shardBidding, shardRunning>>, <<shardBidding, shardCompleted>>,
   <<shardBidding, shardError>>,
   <<shardRunning, shardPublishingToVerifier>>, <<shardRunning, shardError>>,
   <<shardPublishingToVerifier, shardVerifyingResults>>,
   <<shardPublishingToVerifier, shardError>>,
   <<shardVerifyingResults, shardPublishingToRequester>>,
   <<shardVerifyingResults, shardError>>,
   <<shardPublishingToRequester, shardCompleted>>,
   <<shardPublishingToRequester, shardError>>,
   <<shardError, shardCompleted>>}

\* C18: every change of an fsm's currentState is a pair of the transition
\* table and is what previousState and currentState then show; Completed is
\* never left; an fsm in Error takes no request and, the driver being
\* scheduled, gets to Completed
C18_TransitionTable ==
  /\ [][\A f \in FsmIds :
          /\ currentState'[f] # currentState[f] =>
               /\ <<currentState[f], currentState'[f]>> \in TransitionTable
               /\ previousState'[f] = currentState[f]
          /\ currentState'[f] # shardInitialState =>
               <<previousState'[f], currentState'[f]>> \in TransitionTable
          /\ currentState[f] = shardCompleted => currentState'[f] = shardCompleted
          /\ currentState[f] = shardError =>
               /\ currentState'[f] \in {shardError, shardCompleted}
               /\ \A t \in Senders :
                    (snd[t].pc = "blocked" /\ snd[t].fsm = f) => snd'[t].pc # "idle"]_vars
  /\ \A f \in FsmIds :
       (currentState[f] = shardError) ~> (currentState[f] = shardCompleted)

\* C18 witness: an fsm is in Error, entered from VerifyingResults, while a
\* request for it is waiting to be taken
C18_Witness ==
  \E f \in Created : \E t \in Senders :
    /\ currentState[f] = shardError
    /\ previousState[f] = shardVerifyingResults
    /\ snd[t].pc = "blocked" /\ snd[t].fsm = f

\* the actions the transition table does not list for the state an fsm
\* waits in
Unlisted(pc) ==
  CASE pc = "recvEnqueued" -> {actionRejected, actionRun, actionPublish}
    [] pc = "recvBidding" -> {actionBid, actionPublish}
    [] pc = "recvVerifying" -> {actionBid, actionRejected, actionRun}
    [] OTHER -> {}

\* C19: an fsm waiting in Enqueued, Bidding or VerifyingResults that takes
\* an action the table does not list for that state keeps currentState,
\* previousState, bidSent, errorMsg and resultProposal, makes no outbound
\* call and goes on waiting in the same state with its channel open
C19_UnlistedIgnored ==
  [][\A f \in FsmIds : \A t \in Senders : \A a \in Unlisted(fsmPc[f]) :
       Takes(f, t, a) =>
         /\ FsmUntouched(f)
         /\ visited'[f] = visited[f]
         /\ fsmPc'[f] = fsmPc[f]
         /\ ~chanClosed'[f]]_vars

\* C19 witness: an fsm waits in VerifyingResults and the request blocked on
\* its channel is a Bid of the control loop, whose snapshot had it Enqueued
C19_Witness ==
  \E f \in Created :
    /\ fsmPc[f] = "recvVerifying"
    /\ currentState[f] = shardVerifyingResults
    /\ snd[ControlLoop].pc = "blocked"
    /\ snd[ControlLoop].fsm = f
    /\ snd[ControlLoop].action = actionBid

\* this step is a reaper pass: GetEnqueued or GetActive has run
ReaperPass ==
  \/ rbPc = "idle" /\ rbPc' = "backlog"
  \/ rbPc = "bid" /\ rbPc' = "idle"

\* C20: a reaper pass cuts off the list exactly its longest prefix of
\* Completed fsms and deletes their entries, and no other, from the lookup
\* map: the fsms removed are Completed, the head of the list left, if any, is
\* not Completed, and every fsm behind it, Completed or not, stays in the list
\* and keeps its entry of the map
C20_ReapsPrefix ==
  [][ReaperPass =>
       LET old == shardStatesList
           new == shardStatesList'
           k == Len(old) - Len(new)
       IN /\ k >= 0
          /\ new = SubSeq(old, k + 1, Len(old))
          /\ \A i \in 1..k :
               /\ currentState[old[i]] = shardCompleted
               /\ shardStates'[fsmShard[old[i]]] = 0
               /\ old[i] \in reaped'
          /\ new # <<>> => currentState[new[1]] # shardCompleted
          /\ \A j \in 1..Len(new) :
               /\ shardStates'[fsmShard[new[j]]] = new[j]
               /\ new[j] \notin reaped'
          /\ \A s \in Shards :
               (\A i \in 1..k : fsmShard[old[i]] # s) => shardStates'[s] = shardStates[s]]_vars

\* C20 witness: a pass has just run; it has reaped the completed front and
\* left, behind an fsm that is not completed, a Completed fsm that is still
\* in the list and in the map
C20_Witness ==
  /\ rbPc = "backlog"
  /\ reaped # {}
  /\ Len(shardStatesList) >= 2
  /\ currentState[shardStatesList[1]] # shardCompleted
  /\ \E j \in 2..Len(shardStatesList) :
       /\ fsmPc[shardStatesList[j]] = "done"
       /\ shardStates[fsmShard[shardStatesList[j]]] = shardStatesList[j]

\* the place in HappyPath of the driver state whose outbound call stored
\* this error message (0: the message is not the error of such a call)
FailedAt(msg) ==
  CASE msg \in {ErrRun, ErrWait, ErrExit} -> 3
    [] msg = ErrFinished -> 4
    [] msg = ErrPublish -> 6
    [] OTHER -> 0

\* C21: an fsm whose RunShard, ShardExecutionFinished or PublishShard call
\* failed has its bid sent, has moved along the happy path up to the state of
\* the failed call and from there to Error and Completed only, never through
\* the state that follows on success, and has emitted exactly one ShardError
\* once it is in Error
C21_DriverErrorFails ==
  \A f \in Created :
    FailedAt(errorMsg[f]) # 0 =>
      LET k == FailedAt(errorMsg[f])
          path == SubSeq(HappyPath, 1, k) \o <<shardError, shardCompleted>>
      IN /\ bidSent[f]
         /\ Len(visited[f]) >= k
         /\ IsPrefix(visited[f], path)
         /\ fsmPc[f] \in {"errorState", "completedState", "close", "done"}
         /\ fsmPc[f] = "errorState" <=> currentState[f] = HappyPath[k]
         /\ out[f].shardError = IF currentState[f] = HappyPath[k] THEN 0 ELSE 1
         /\ fsmPc[f] \in {"close", "done"} => visited[f] = path

\* C21 witness: ShardExecutionFinished failed, the fsm went through Error to
\* Completed and the failure was reported
C21_Witness ==
  \E f \in Created :
    /\ errorMsg[f] = ErrFinished
    /\ fsmPc[f] = "done"
    /\ ~Visited(f, shardVerifyingResults)
    /\ out[f].shardError = 1

\* C22: an fsm that has sent its bid and to which the peer sends nothing
\* any more eventually reaches Completed and closes its request channel
C22_ProgressWithoutPeer ==
  \A f \in FsmIds :
    bidSent[f] ~> (currentState[f] = shardCompleted /\ chanClosed[f])

\* C23: a thread that is blocked in a send to an fsm's channel, or is
\* getting out of one, does not hold the manager mutex; the control loop
\* does not hold it while the handlers of a pass run and its Bids are sent;
\* the only holder of the manager mutex between two steps is a call of
\* StartShardStateIfNecessery, which sends nothing; and an fsm's own mutex is
\* free whenever its driver makes an outbound call or waits for a request
C23_NoLockAcrossSend ==
  [][/\ \A t \in Senders : snd'[t].pc # "idle" => mu' # t
     /\ rbPc' \in {"backlog", "bid"} => mu' # ControlLoop
     /\ mu' # NoThread =>
          /\ mu' \in Announcers
          /\ startPc'[mu'] \in {"insert", "append"}
     /\ \A f \in FsmIds :
          /\ out'[f] # out[f] => fsmMu'[f] = NoThread /\ fsmMu[f] = NoThread
          /\ fsmPc'[f] \in {"recvEnqueued", "recvBidding", "recvVerifying"} =>
               fsmMu'[f] = NoThread]_vars

\* C23 witness: a call of StartShardStateIfNecessery holds the manager
\* mutex while a sender is blocked in its send and the control loop is
\* between GetEnqueued and its handlers
C23_Witness ==
  /\ mu \in Announcers
  /\ rbPc = "backlog"
  /\ \E t \in Senders : \E f \in Created :
       /\ snd[t].pc = "blocked" /\ snd[t].fsm = f
       /\ fsmPc[f] = "recvBidding"

\* C24: whenever the manager mutex is free, the shard ids that have an
\* entry in the lookup map are exactly the shard ids of the fsms of the
\* ordered list, no two fsms of the list have the same shard id, and the
\* entry of each id is the fsm of the list with that id
C24_MapMatchesList ==
  mu = NoThread =>
    /\ \A s \in Shards :
         shardStates[s] # 0 <=>
           \E i \in 1..Len(shardStatesList) : fsmShard[shardStatesList[i]] = s
    /\ \A i, j \in 1..Len(shardStatesList) :
         fsmShard[shardStatesList[i]] = fsmShard[shardStatesList[j]] => i = j
    /\ \A i \in 1..Len(shardStatesList) :
         shardStates[fsmShard[shardStatesList[i]]] = shardStatesList[i]

\* C24 witness: the mutex is free, one fsm was reaped and its shard was
\* announced again, and the list holds two fsms, a completed one among
\* them
C24_Witness ==
  /\ mu = NoThread
  /\ reaped # {}
  /\ Len(shardStatesList) = 2
  /\ \E i \in 1..2 : fsmShard[shardStatesList[i]] \in {fsmShard[f] : f \in reaped}
  /\ \E i \in 1..2 : currentState[shardStatesList[i]] = shardCompleted

\* C25: BidOnJob is called at most once for an fsm; an fsm that has left
\* Enqueued never gets back to it; a Bid taken after the call changes nothing
\* of the fsm, which goes on waiting, and a Bid for a terminated fsm ends in
\* the recovered panic of its sender
C25_BidOnJobOnce ==
  [][\A f \in FsmIds :
       /\ out'[f].bidOnJob <= 1
       /\ currentState[f] \notin {shardInitialState, shardEnqueued} =>
            currentState'[f] # shardEnqueued
       /\ out[f].bidOnJob = 1 =>
            /\ fsmPc'[f] \notin {"enqueuedState", "recvEnqueued"}
            /\ \A t \in Senders :
                 /\ Takes(f, t, actionBid) =>
                      FsmUntouched(f) /\ fsmPc'[f] = fsmPc[f]
                 /\ (snd[t].pc = "blocked" /\ snd[t].fsm = f
                       /\ snd[t].action = actionBid /\ chanClosed[f]) =>
                      snd'[t].pc \in {"blocked", "recovered"} /\ FsmUntouched(f)]_vars

\* C25 witness: BidOnJob was called for an fsm that now waits in Bidding
\* while two more Bids, of the control loop and of the adapter, are blocked
\* on its channel
C25_Witness ==
  \E f \in Created :
    /\ out[f].bidOnJob = 1
    /\ fsmPc[f] = "recvBidding"
    /\ \A t \in Senders :
         snd[t].pc = "blocked" /\ snd[t].fsm = f /\ snd[t].action = actionBid

WaitingPcs == {"recvEnqueued", "recvBidding", "recvVerifying"}

\* C26: a sender blocked on an fsm's channel gets out of the send only when
\* the fsm, waiting in Enqueued, Bidding or VerifyingResults, takes the
\* request, or when the channel was closed by the terminated fsm and the
\* request is dropped; no step of a driver state takes a request, and a Fail
\* takes effect only in the step of a waiting state that takes it
C26_DriverStatesDoNotReceive ==
  [][/\ \A t \in Senders :
          (snd[t].pc = "blocked" /\ snd'[t] # snd[t]) =>
            LET f == snd[t].fsm IN
              \/ /\ snd'[t].pc = "idle"
                 /\ fsmPc[f] \in WaitingPcs
                 /\ currentState[f] \in
                      {shardEnqueued, shardBidding, shardVerifyingResults}
                 /\ ~chanClosed[f]
              \/ /\ snd'[t].pc = "recovered"
                 /\ chanClosed[f]
                 /\ currentState[f] = shardCompleted
                 /\ FsmUntouched(f)
     /\ \A f \in FsmIds :
          (errorMsg'[f] = FailReason /\ errorMsg[f] # FailReason) =>
            /\ fsmPc[f] \in WaitingPcs
            /\ \E t \in Senders : Takes(f, t, actionFail)]_vars

\* C26 witness: a Fail was sent while the fsm was running its shard; RunShard
\* has returned its proposal and the sender is still blocked
C26_Witness ==
  \E f \in Created : \E t \in Senders :
    /\ currentState[f] = shardRunning
    /\ fsmPc[f] = "publishingToVerifierState"
    /\ resultProposal[f] \in Proposals
    /\ snd[t].pc = "blocked" /\ snd[t].fsm = f /\ snd[t].action = actionFail

\* C27: an fsm is constructed for a shard only when the shard has no entry
\* in the lookup map and every earlier fsm of the shard was reaped; the entry
\* of a Completed fsm stays what it is, so that Get returns that fsm and
\* requests for the shard are sent to it, until a reaper pass deletes it
C27_NoReadmissionBeforeReaped ==
  [][/\ nextFsm' # nextFsm =>
          LET g == nextFsm'
              s == fsmShard'[g]
          IN /\ nextFsm' = nextFsm + 1
             /\ shardStates[s] = 0
             /\ \A f \in FsmsOf(s) : f \in reaped /\ currentState[f] = shardCompleted
     /\ \A s \in Shards :
          LET f == shardStates[s] IN
            (f # 0 /\ currentState[f] = shardCompleted) =>
              /\ Get(s) = f
              /\ shardStates'[s] # f =>
                   ReaperPass /\ shardStates'[s] = 0 /\ f \in reaped'
              /\ \A t \in Senders :
                   (snd[t].pc = "idle" /\ snd'[t].pc = "blocked"
                      /\ fsmShard[snd'[t].fsm] = s) => snd'[t].fsm = f]_vars

\* C27 witness: a Completed fsm sits in the list behind an older fsm that is
\* bidding; a pass has just run and has left it in the list and in the map
C27_Witness ==
  /\ rbPc = "backlog"
  /\ Len(shardStatesList) = 2
  /\ currentState[shardStatesList[1]] = shardBidding
  /\ fsmPc[shardStatesList[2]] = "done"
  /\ Get(fsmShard[shardStatesList[2]]) = shardStatesList[2]
  /\ nextFsm < MaxFsm

====
